---- MODULE Spec2Model ----
(***************************************************************************)
(* RNES: the 6502 instruction interpreter (src/cpu.rs) and the picture     *)
(* processing unit (src/ppu.rs), as state machines.                        *)
(*                                                                         *)
(* The bus (mem::Memory) is a collaborator of both engines; its source is  *)
(* not part of the two files, so it is modelled from its interface: a      *)
(* byte-addressed RAM for load/write and chr_load/chr_store, and a pair of *)
(* "which register did the CPU touch" signals polled by the PPU.           *)
(***************************************************************************)
EXTENDS Integers, Sequences, FiniteSets, TLC

VARIABLES cpu, memory, ppu, bus, panicked, last, hist, build

vars == <<cpu, memory, ppu, bus, panicked, last, hist, build>>

(***************************************************************************)
(* Fixed-width arithmetic: Wrapping<u8>, Wrapping<u16> and the bit         *)
(* operators of Rust on unsigned integers.                                 *)
(***************************************************************************)
Byte == 0..255

W8(n) == n % 256

W16(n) == n % 65536

RECURSIVE BitAnd(_, _)
BitAnd(a, b) ==
    IF a = 0 \/ b = 0 THEN 0
    ELSE (a % 2) * (b % 2) + 2 * BitAnd(a \div 2, b \div 2)

RECURSIVE BitOr(_, _)
BitOr(a, b) ==
    IF a = 0 THEN b
    ELSE IF b = 0 THEN a
    ELSE (IF (a % 2) + (b % 2) > 0 THEN 1 ELSE 0) + 2 * BitOr(a \div 2, b \div 2)

\* !x on a u8
Not8(a) == 255 - a

\* x >> n
Shr(a, n) == a \div (2 ^ n)

EmptyMem == [x \in {} |-> 0]

(***************************************************************************)
(* The bus, CPU side: Memory::load and Memory::write.  A memory is a       *)
(* finite map from the addresses that hold a non-default byte; every other *)
(* cell reads 0.                                                           *)
(***************************************************************************)
MemLoad(m, a) == IF a \in DOMAIN m THEN m[a] ELSE 0

MemWrite(m, a, b) ==
    [x \in ((DOMAIN m) \cup {a}) \ (IF b = 0 THEN {a} ELSE {}) |->
        IF x = a THEN b ELSE m[x]]

(***************************************************************************)
(* cpu.rs: constants and dispatch tables.  A table is the sequence of its  *)
(* handlers' names; slot i of the source is element i + 1.                 *)
(***************************************************************************)
OP_SPECIAL_TABLE == <<"brk", "invalid", "rti", "rts">>

OP_BRANCH_TABLE == <<"bpl", "bmi", "bvc", "bvs", "bcc", "bcs", "bne", "beq">>

OP_IMPLIED_TABLE ==
    << "php", "asl_a", "clc", "invalid",
       "plp", "rol_a", "sec", "invalid",
       "pha", "lsr_a", "cli", "invalid",
       "pla", "ror_a", "sei", "invalid",
       "dey", "txa", "tya", "txs",
       "tay", "tax", "clv", "tsx",
       "iny", "dex", "cld", "invalid",
       "inx", "nop", "sed", "invalid" >>

OP_COMMON_TABLE ==
    << "invalid_c", "ora", "asl", "invalid_c",
       "bit", "and", "rol", "invalid_c",
       "invalid_c", "eor", "lsr", "invalid_c",
       "invalid_c", "adc", "ror", "invalid_c",
       "sty", "sta", "stx", "invalid_c",
       "ldy", "lda", "ldx", "invalid_c",
       "cpy", "cmp", "dec", "invalid_c",
       "cpx", "sbc", "inc", "invalid_c" >>

OP_JUMP_MASK == 223

OP_JUMP == 76

OP_SPECIAL_MASK == 159

OP_SPECIAL == 0

OP_BRANCH_MASK == 31

OP_BRANCH == 16

OP_IMPLIED_MASK == 31

OP_IMPLIED == 8

OP_JSR == 32

STACK_PAGE == 256

\* CPU::new
CpuNew == [A |-> 0, X |-> 0, Y |-> 0, Flags |-> 36, SP |-> 255, PC |-> 0]

(***************************************************************************)
(* A CPU operation works on a context c = [cpu, mem, acc]: the register    *)
(* file, the memory, and the list of bus accesses made so far.             *)
(***************************************************************************)
Ctx(c, m) == [cpu |-> c, mem |-> m, acc |-> <<>>]

\* memory.load(a), recorded
CtxLoad(c, a) == [c EXCEPT !.acc = Append(@, <<"load", a>>)]

\* memory.write(a, b), recorded
CtxWrite(c, a, b) ==
    [c EXCEPT !.mem = MemWrite(@, a, b), !.acc = Append(@, <<"write", a>>)]

\* fn load_word: low byte at address, high byte at address + 1
load_word_swapped(m, address) ==
    BitOr(MemLoad(m, address) * 256, MemLoad(m, W16(address + 1)))

load_word(m, address) ==
    LET low == MemLoad(m, address)
    IN  BitOr(MemLoad(m, W16(address + 1)) * 256, low)

\* the two loads of load_word, recorded
LoadWordAcc(c, address) == CtxLoad(CtxLoad(c, address), W16(address + 1))

\* CPU::pop: returns [ctx, val]
pop_post_increment(c) ==
    LET at == BitOr(STACK_PAGE, c.cpu.SP)
    IN  [ctx |-> CtxLoad([c EXCEPT !.cpu.SP = W8(c.cpu.SP + 1)], at),
         val |-> MemLoad(c.mem, at)]

pop(c) ==
    LET sp == W8(c.cpu.SP + 1)
        at == BitOr(STACK_PAGE, sp)
    IN  [ctx |-> CtxLoad([c EXCEPT !.cpu.SP = sp], at),
         val |-> MemLoad(c.mem, at)]

\* CPU::push
push(c, byte) ==
    LET at == BitOr(STACK_PAGE, c.cpu.SP)
    IN  [CtxWrite(c, at, byte) EXCEPT !.cpu.SP = W8(c.cpu.SP + 255)]

\* CPU::push_word: high byte first
push_word(c, word) == push(push(c, Shr(word, 8)), W8(word))

\* CPU::pop_word: low byte first
pop_word(c) ==
    LET lo == pop(c)
        hi == pop(lo.ctx)
    IN  [ctx |-> hi.ctx, val |-> BitOr(hi.val * 256, lo.val)]

(***************************************************************************)
(* Flag macros.                                                            *)
(***************************************************************************)
set_zero(flags) == BitOr(flags, 2)

unset_zero(flags) == BitAnd(flags, Not8(2))

uset_negative(flags, val) ==
    IF BitAnd(val, 128) = 0 THEN BitAnd(flags, Not8(128)) ELSE BitOr(flags, 128)

(***************************************************************************)
(* Instruction handlers.  Every handler of the source other than jsr, inx  *)
(* and iny has an empty body.                                              *)
(***************************************************************************)
\* CPU::jsr
jsr(c) ==
    LET pc == W16(c.cpu.PC + 1)
        address == load_word(c.mem, pc)
        pushed == push_word(LoadWordAcc(c, pc), W16(pc + 2))
    IN  [pushed EXCEPT !.cpu.PC = address]

\* CPU::inx
inx_no_wrap(c) ==
    LET x == IF c.cpu.X = 255 THEN 255 ELSE c.cpu.X + 1
        z == IF x = 0 THEN set_zero(c.cpu.Flags) ELSE unset_zero(c.cpu.Flags)
    IN  [c EXCEPT !.cpu.X = x, !.cpu.Flags = uset_negative(z, x)]

inx(c) ==
    LET x == W8(c.cpu.X + 1)
        z == IF x = 0 THEN set_zero(c.cpu.Flags) ELSE unset_zero(c.cpu.Flags)
    IN  [c EXCEPT !.cpu.X = x, !.cpu.Flags = uset_negative(z, x)]

\* CPU::iny
iny(c) ==
    LET y == W8(c.cpu.Y + 1)
        z == IF y = 0 THEN set_zero(c.cpu.Flags) ELSE unset_zero(c.cpu.Flags)
    IN  [c EXCEPT !.cpu.Y = y, !.cpu.Flags = uset_negative(z, y)]

\* a table slot applied to the context; the operand (offset, addressing
\* mode or jump address) is ignored by every handler that takes one
Handler(name, c) ==
    CASE name = "inx" -> inx(c)
      [] name = "iny" -> iny(c)
      [] OTHER -> c

(***************************************************************************)
(* CPU::execute: fetch, classify, dispatch.                                *)
(***************************************************************************)
IsJump(opcode) == BitAnd(opcode, OP_JUMP_MASK) = OP_JUMP

IsSpecial(opcode) == BitAnd(opcode, OP_SPECIAL_MASK) = OP_SPECIAL

IsBranch(opcode) == BitAnd(opcode, OP_BRANCH_MASK) = OP_BRANCH

IsImplied(opcode) == BitAnd(opcode, OP_IMPLIED_MASK) = OP_IMPLIED

SpecialIndex(opcode) == BitAnd(Shr(opcode, 5), 3)

BranchIndex(opcode) == Shr(opcode, 5)

ImpliedIndex(opcode) == BitAnd(Shr(opcode, 4), 14) + BitAnd(Shr(opcode, 1), 1)

CommonIndex_wide(opcode) == BitAnd(Shr(opcode, 2), 60) + BitAnd(opcode, 3)

CommonIndex(opcode) == BitAnd(Shr(opcode, 3), 28) + BitAnd(opcode, 3)

CommonAddressing(opcode) == BitAnd(Shr(opcode, 2), 3)

\* `memory.load(pc.0) as i8`, then "to sign-magnitude":
\* if offset < 0 { offset = -(offset & 0x7F) }
BranchOffset(byte) ==
    IF byte >= 128 THEN 0 - BitAnd(byte, 127) ELSE byte

\* the outcome of one execute: the context after it and what was dispatched
Dispatched(c, opcode, family, index, handler, arg) ==
    [ctx |-> c, opcode |-> opcode, family |-> family, index |-> index,
     handler |-> handler, arg |-> arg]

execute(c0) ==
    LET pc0 == c0.cpu.PC
        opcode == MemLoad(c0.mem, pc0)
        c == CtxLoad(c0, pc0)
        pc == W16(pc0 + 1)
    IN  IF IsJump(opcode) THEN
            LET direct == load_word(c.mem, pc)
                c1 == LoadWordAcc(c, pc)
                indirect == BitAnd(opcode, Not8(OP_JUMP_MASK)) > 0
                address == IF indirect THEN load_word(c.mem, direct) ELSE direct
                c2 == IF indirect THEN LoadWordAcc(c1, direct) ELSE c1
            IN  Dispatched(Handler("jmp", c2), opcode, "Jump", 0, "jmp", address)
        ELSE IF IsSpecial(opcode) THEN
            IF opcode = OP_JSR THEN
                Dispatched(jsr(c), opcode, "Special", 0, "jsr", 0)
            ELSE
                LET index == SpecialIndex(opcode)
                    h == IF index + 1 \in DOMAIN OP_SPECIAL_TABLE
                         THEN OP_SPECIAL_TABLE[index + 1] ELSE "out_of_bounds"
                IN  Dispatched(Handler(h, c), opcode, "Special", index, h, 0)
        ELSE IF IsBranch(opcode) THEN
            LET offset == BranchOffset(MemLoad(c.mem, pc))
                index == BranchIndex(opcode)
                h == IF index + 1 \in DOMAIN OP_BRANCH_TABLE
                     THEN OP_BRANCH_TABLE[index + 1] ELSE "out_of_bounds"
            IN  Dispatched(Handler(h, CtxLoad(c, pc)), opcode, "Branch", index, h, offset)
        ELSE IF IsImplied(opcode) THEN
            LET index == ImpliedIndex(opcode)
                h == IF index + 1 \in DOMAIN OP_IMPLIED_TABLE
                     THEN OP_IMPLIED_TABLE[index + 1] ELSE "out_of_bounds"
            IN  Dispatched(Handler(h, c), opcode, "Implied", index, h, 0)
        ELSE
            LET addressing == CommonAddressing(opcode)
                index == CommonIndex(opcode)
                h == IF index + 1 \in DOMAIN OP_COMMON_TABLE
                     THEN OP_COMMON_TABLE[index + 1] ELSE "out_of_bounds"
            IN  Dispatched(Handler(h, c), opcode, "Common", index, h, addressing)

(***************************************************************************)
(* PPU and bus state at construction (Ppu::new, AddressLatch::default,     *)
(* Oam::default).                                                          *)
(***************************************************************************)
PALETTE_SIZE == 32

PALETTE_ADDRESS == 16128

PPU_ADDRESS_SPACE == 16384

VBLANK_END == 27902

MASK_SHOW_BACKGROUND == 8

MASK_SHOW_SPRITES == 16

\* AddressLatch::default (derived): both bytes 0, upper false
AddressLatchDefault == [laddr |-> 0, haddr |-> 0, upper |-> FALSE]

\* Tile::new
TileNew == [tile |-> 0, high |-> TRUE]

\* Ppu::new
PpuNew ==
    [palette |-> EmptyMem,
     oam |-> EmptyMem,
     ctrl |-> 0, mask |-> 0, status |-> 0,
     scroll |-> AddressLatchDefault, addr |-> AddressLatchDefault,
     oamaddr |-> 0,
     scanline |-> 0, cycles |-> 0, fps |-> 0, frame_parity |-> TRUE,
     tile |-> TileNew]

\* the bus as the PPU sees it: pattern/nametable memory and the byte staged
\* by set_latch
BusNew == [chr |-> EmptyMem, staged |-> 0]

NoOp == [op |-> "none"]

\* how the crate was compiled: `*address += 1` on a u8 panics at 255 when
\* overflow checks are on (the dev profile) and wraps when they are off
\* (the release profile)
BuildChecked == [overflow_checks |-> TRUE]

Builds == [overflow_checks : BOOLEAN]

\* what an observer of the PPU has seen so far: the number of steps, the
\* inputs of the latest three steps, the steps, frame counter and parity
\* since the cycle counter was last seen at 0 at a frame boundary, the
\* latest data store, and the palette as the mirroring rule predicts it
HistNew ==
    [steps |-> 0, inputs |-> <<>>, fsteps |-> 0, fps0 |-> 0, parity0 |-> TRUE,
     stores |-> 0, store |-> [a |-> 0, v |-> 0],
     shadow |-> EmptyMem]

(***************************************************************************)
(* Spec: the CPU engine stepping from CPU::new over a family of programs.  *)
(***************************************************************************)
\* bytes of the operand cells 1 and 2
OperandBytes == {0, 32, 254, 255}

\* bytes of the cells 0xFFFE and 0xFFFF: brk, jsr, rts
TailBytes == {0, 32, 96}

Programs ==
    { MemWrite(MemWrite(MemWrite(MemWrite(MemWrite(EmptyMem,
          0, b0), 1, b1), 2, b2), 65534, e), 65535, f) :
        b0 \in Byte, b1 \in OperandBytes, b2 \in OperandBytes,
        e \in TailBytes, f \in TailBytes }

Init ==
    /\ cpu = CpuNew
    /\ memory \in Programs
    /\ ppu = PpuNew
    /\ bus = BusNew
    /\ panicked = FALSE
    /\ last = NoOp
    /\ hist = HistNew
    /\ build = BuildChecked

\* one call of CPU::execute
Execute ==
    LET r == execute(Ctx(cpu, memory))
    IN  /\ cpu' = r.ctx.cpu
        /\ memory' = r.ctx.mem
        /\ last' = [op |-> "execute", pre |-> cpu, mem0 |-> memory,
                    opcode |-> r.opcode, family |-> r.family,
                    index |-> r.index, handler |-> r.handler,
                    arg |-> r.arg, acc |-> r.ctx.acc,
                    prev |-> IF last.op = "execute"
                             THEN [opcode |-> last.opcode, pre |-> last.pre]
                             ELSE [opcode |-> -1, pre |-> cpu]]
        /\ UNCHANGED <<ppu, bus, panicked, hist, build>>

Next == Execute

Spec == Init /\ [][Next]_vars

(***************************************************************************)
(* SpecStack: push_word and pop_word applied to every stack pointer.       *)
(***************************************************************************)
Words == {0, 255, 4660, 32769, 65280, 65535}

InitStack ==
    /\ \E sp \in Byte : cpu = [CpuNew EXCEPT !.SP = sp]
    /\ memory = EmptyMem
    /\ ppu = PpuNew
    /\ bus = BusNew
    /\ panicked = FALSE
    /\ last = NoOp
    /\ hist = HistNew
    /\ build = BuildChecked

PushWord ==
    /\ last.op # "push_word"
    /\ \E word \in Words :
         LET c == push_word(Ctx(cpu, memory), word)
         IN  /\ cpu' = c.cpu
             /\ memory' = c.mem
             /\ last' = [op |-> "push_word", sp0 |-> cpu.SP, word |-> word,
                         acc |-> c.acc]
    /\ UNCHANGED <<ppu, bus, panicked, hist, build>>

PopWord ==
    /\ last.op = "push_word"
    /\ LET r == pop_word(Ctx(cpu, memory))
       IN  /\ cpu' = r.ctx.cpu
           /\ memory' = r.ctx.mem
           /\ last' = [op |-> "pop_word", sp0 |-> last.sp0, word |-> last.word,
                       acc |-> last.acc \o r.ctx.acc, val |-> r.val]
    /\ UNCHANGED <<ppu, bus, panicked, hist, build>>

NextStack == PushWord \/ PopWord

SpecStack == InitStack /\ [][NextStack]_vars

(***************************************************************************)
(* SpecInc: the inx and iny handlers applied to every register value.      *)
(***************************************************************************)
FlagVals == {0, 1, 2, 36, 64, 125, 128, 195, 255}

MaxIncSteps == 2

InitInc ==
    /\ \E v \in Byte, f \in FlagVals :
         cpu = [CpuNew EXCEPT !.X = v, !.Y = v, !.Flags = f]
    /\ memory = EmptyMem
    /\ ppu = PpuNew
    /\ bus = BusNew
    /\ panicked = FALSE
    /\ last = [op |-> "none", n |-> 0]
    /\ hist = HistNew
    /\ build = BuildChecked

Inx ==
    /\ last.n < MaxIncSteps
    /\ LET c == inx(Ctx(cpu, memory))
       IN  /\ cpu' = c.cpu
           /\ memory' = c.mem
           /\ last' = [op |-> "inx", n |-> last.n + 1, pre |-> cpu]
    /\ UNCHANGED <<ppu, bus, panicked, hist, build>>

Iny ==
    /\ last.n < MaxIncSteps
    /\ LET c == iny(Ctx(cpu, memory))
       IN  /\ cpu' = c.cpu
           /\ memory' = c.mem
           /\ last' = [op |-> "iny", n |-> last.n + 1, pre |-> cpu]
    /\ UNCHANGED <<ppu, bus, panicked, hist, build>>

NextInc == Inx \/ Iny

SpecInc == InitInc /\ [][NextInc]_vars

(***************************************************************************)
(* Properties of the CPU engine.                                           *)
(***************************************************************************)
Bit(n, i) == (n \div (2 ^ i)) % 2

Executed == last.op = "execute"

\* how many of the four mask tests an opcode passes
MaskTests(opcode) ==
    (IF IsJump(opcode) THEN 1 ELSE 0) + (IF IsSpecial(opcode) THEN 1 ELSE 0)
    + (IF IsBranch(opcode) THEN 1 ELSE 0) + (IF IsImplied(opcode) THEN 1 ELSE 0)

\* C1: every executed opcode passes at most one of the four mask tests, is
\* dispatched to exactly the family whose test it passes (Common when it
\* passes none), and the index computed for that family lies within the
\* family's table (Special 0..3, Branch 0..7, Implied 0..31, Common 0..31).
C1_DispatchInBounds ==
    Executed =>
        /\ MaskTests(last.opcode) <= 1
        /\ last.family \in {"Jump", "Special", "Branch", "Implied", "Common"}
        /\ (last.family = "Jump") = IsJump(last.opcode)
        /\ (last.family = "Special") = IsSpecial(last.opcode)
        /\ (last.family = "Branch") = IsBranch(last.opcode)
        /\ (last.family = "Implied") = IsImplied(last.opcode)
        /\ (last.family = "Common") = (MaskTests(last.opcode) = 0)
        /\ last.handler # "out_of_bounds"
        /\ last.family = "Special" => last.index \in 0..3
        /\ last.family = "Branch" => last.index \in 0..7
        /\ last.family = "Implied" => last.index \in 0..31
        /\ last.family = "Common" => last.index \in 0..31

\* opcode 0xFF has been dispatched to the last slot of the Common table
C1_Witness ==
    Executed /\ last.opcode = 255 /\ last.family = "Common" /\ last.index = 31

\* C2: after a step on an Implied-family opcode fetched at P the program
\* counter is P + 1 modulo 2^16.
C2_ImpliedAdvancesPC ==
    (Executed /\ last.family = "Implied") => cpu.PC = W16(last.pre.PC + 1)

JsrExecuted == Executed /\ last.opcode = OP_JSR

\* C3: after jump-to-subroutine at P the two pushed bytes, read back with
\* pop_word, decode to P + 2 modulo 2^16 and the stack pointer is lower by 2
\* modulo 256.
C3_JsrPushesLastByteAddress ==
    JsrExecuted =>
        /\ pop_word(Ctx(cpu, memory)).val = W16(last.pre.PC + 2)
        /\ cpu.SP = W8(last.pre.SP + 254)

\* C4: after jump-to-subroutine at P the program counter is the target
\* whose low byte was at P + 1 and whose high byte was at P + 2 (addresses
\* modulo 2^16) before the step.
C4_JsrTarget ==
    JsrExecuted =>
        cpu.PC = MemLoad(last.mem0, W16(last.pre.PC + 1))
                 + 256 * MemLoad(last.mem0, W16(last.pre.PC + 2))

\* a call at 0xFFFF, whose operand bytes wrap to 0x0000 and 0x0001
C4_Witness ==
    JsrExecuted /\ last.pre.PC = 65535 /\ cpu.PC = 65312

\* C5: push_word followed at once by pop_word returns the pushed word and
\* restores the stack pointer; the pair makes four byte accesses, all in
\* 0x0100..0x01FF: the writes at the pointer and at the pointer minus one,
\* then the reads at the pointer minus one and at the pointer.
C5_PushPopRoundTrip ==
    last.op = "pop_word" =>
        /\ last.val = last.word
        /\ cpu.SP = last.sp0
        /\ \A i \in DOMAIN last.acc : last.acc[i][2] \in 256..511
        /\ last.acc = << <<"write", 256 + last.sp0>>,
                         <<"write", 256 + W8(last.sp0 + 255)>>,
                         <<"load", 256 + W8(last.sp0 + 255)>>,
                         <<"load", 256 + last.sp0>> >>

\* a pair completed at stack pointer 0, where the pointer wraps to 255
C5_Witness ==
    last.op = "pop_word" /\ last.sp0 = 0 /\ last.word = 4660 /\ last.val = 4660

\* the status bits other than Zero (1) and Negative (7)
OtherFlagBits == {0, 2, 3, 4, 5, 6}

\* the flag law of an increment whose result is r
IncFlags(r, before, after) ==
    /\ Bit(after, 1) = (IF r = 0 THEN 1 ELSE 0)
    /\ Bit(after, 7) = Bit(r, 7)
    /\ \A i \in OtherFlagBits : Bit(after, i) = Bit(before, i)

\* C6: inx sets X to (X + 1) mod 256, Zero iff the new X is 0, Negative to
\* bit 7 of the new X, and leaves the other status bits and A, Y, SP, PC
\* alone; iny does the same to Y, leaving A, X, SP, PC alone.
C6_IncrementLaw ==
    /\ last.op = "inx" =>
         /\ cpu.X = (last.pre.X + 1) % 256
         /\ IncFlags(cpu.X, last.pre.Flags, cpu.Flags)
         /\ <<cpu.A, cpu.Y, cpu.SP, cpu.PC>>
              = <<last.pre.A, last.pre.Y, last.pre.SP, last.pre.PC>>
    /\ last.op = "iny" =>
         /\ cpu.Y = (last.pre.Y + 1) % 256
         /\ IncFlags(cpu.Y, last.pre.Flags, cpu.Flags)
         /\ <<cpu.A, cpu.X, cpu.SP, cpu.PC>>
              = <<last.pre.A, last.pre.X, last.pre.SP, last.pre.PC>>

\* X has wrapped from 255 to 0 with every other status bit set before
C6_Witness ==
    /\ last.op = "inx" /\ last.pre.X = 255 /\ last.pre.Flags = 255
    /\ cpu.X = 0 /\ cpu.Flags = 127

\* the write accesses among a list of bus accesses
IsWrite(x) == x[1] = "write"

Writes(acc) == SelectSeq(acc, IsWrite)

\* what the caller of execute has in hand after a step: execute returns
\* (), so the register file and the writes made to memory
Outcome(r) == [returned |-> <<>>, cpu |-> r.ctx.cpu, writes |-> Writes(r.ctx.acc)]

\* C14: a step on an opcode of an unassigned table slot (invalid,
\* invalid_c) leaves the caller with something other than what a step on
\* nop (opcode 0xEA) from the same registers leaves: an explicit
\* illegal-opcode outcome.
C14_IllegalOpcodeOutcome ==
    (Executed /\ last.handler \in {"invalid", "invalid_c"}) =>
        [returned |-> <<>>, cpu |-> cpu, writes |-> Writes(last.acc)]
        # Outcome(execute(Ctx(last.pre, MemWrite(last.mem0, last.pre.PC, 234))))

\* C15: the displacement handed to a branch handler is the operand byte b
\* read as two's complement: b for b < 128, b - 256 for b >= 128.
C15_BranchDisplacement ==
    LET b == MemLoad(last.mem0, W16(last.pre.PC + 1))
    IN  (Executed /\ last.family = "Branch") =>
            last.arg = (IF b < 128 THEN b ELSE b - 256)

\* C16: a step on return-from-subroutine (0x60) right after a step on
\* jump-to-subroutine at P leaves the program counter at P + 3 modulo 2^16
\* and the stack pointer at its value before the call.
C16_CallReturnRoundTrip ==
    (Executed /\ last.opcode = 96 /\ last.prev.opcode = OP_JSR) =>
        /\ cpu.PC = W16(last.prev.pre.PC + 3)
        /\ cpu.SP = last.prev.pre.SP

\* C19: for every n in 0..15, opcode (n << 4) | 0x08 is dispatched as
\* Implied to slot 2n of the table and opcode (n << 4) | 0x0A as Implied
\* to slot 2n + 1.
C19_ImpliedSlots ==
    Executed =>
        \A n \in 0..15 :
            /\ last.opcode = n * 16 + 8 =>
                 /\ last.family = "Implied"
                 /\ last.index = 2 * n
                 /\ last.handler = OP_IMPLIED_TABLE[2 * n + 1]
            /\ last.opcode = n * 16 + 10 =>
                 /\ last.family = "Implied"
                 /\ last.index = 2 * n + 1
                 /\ last.handler = OP_IMPLIED_TABLE[2 * n + 2]

(***************************************************************************)
(* ppu.rs.  A PPU operation works on a machine m = [ppu, bus, panicked,    *)
(* ev]: the Ppu struct, the bus, whether a panic has unwound the step, and *)
(* the calls made on the bus, the palette and the renderer so far.  The    *)
(* byte arrays (palette, oam.mem) are finite maps of their non-zero cells. *)
(***************************************************************************)
Machine(p, b) == [ppu |-> p, bus |-> b, panicked |-> FALSE, ev |-> <<>>]

\* the element of a one-element set; The({F(x) : x \in {e}}) is F at the
\* value of e, a statement after the statement that computes e
The(S) == CHOOSE r \in S : TRUE

Emit(m, e) == [m EXCEPT !.ev = Append(@, e)]

Panic(m) == [m EXCEPT !.panicked = TRUE]

\* Tile::set_tile_byte; `high` is read and never assigned
set_tile_byte(t, byte) ==
    IF t.high
    THEN [t EXCEPT !.tile = BitOr(BitAnd(t.tile, 0), byte * 256)]
    ELSE [t EXCEPT !.tile = BitOr(t.tile, BitAnd(byte, 255))]

\* Tile::get_tile
get_tile(t) == t.tile

\* AddressLatch::reset_address
reset_address_keep_toggle(l) == [laddr |-> 0, haddr |-> 0, upper |-> l.upper]

reset_address(l) == AddressLatchDefault

\* AddressLatch::get_address
get_address(l) == BitOr(l.haddr * 256, l.laddr)

\* AddressLatch::set_address
set_address(l, value) ==
    IF l.upper
    THEN [l EXCEPT !.haddr = value, !.upper = ~l.upper]
    ELSE [l EXCEPT !.laddr = value, !.upper = ~l.upper]

\* Ppu::palette_mirror
palette_mirror_none(address) == BitAnd(address, PALETTE_SIZE - 1)

palette_mirror(address) ==
    LET index == BitAnd(address, PALETTE_SIZE - 1)
    IN  IF BitAnd(index, 3) = 0 THEN BitAnd(index, 15) ELSE index

\* Ppu::load: returns [m, val]
load(m) ==
    LET address == get_address(m.ppu.addr)
    IN  IF address < PALETTE_ADDRESS THEN
            [m |-> Emit(m, <<"chr_load", address>>),
             val |-> MemLoad(m.bus.chr, address)]
        ELSE IF address < PPU_ADDRESS_SPACE THEN
            LET index == palette_mirror(address)
            IN  IF index < PALETTE_SIZE
                THEN [m |-> Emit(m, <<"palette_load", index>>),
                      val |-> MemLoad(m.ppu.palette, index)]
                ELSE [m |-> Panic(Emit(m, <<"palette_load", index>>)), val |-> 0]
        ELSE [m |-> Panic(m), val |-> 0]

\* Ppu::store
store_chr_only(m, value) ==
    LET address == get_address(m.ppu.addr)
    IN  IF address < PPU_ADDRESS_SPACE THEN
            Emit([m EXCEPT !.bus.chr = MemWrite(@, address, value)],
                 <<"chr_store", address, value>>)
        ELSE Panic(m)

store(m, value) ==
    LET address == get_address(m.ppu.addr)
    IN  IF address < PALETTE_ADDRESS THEN
            Emit([m EXCEPT !.bus.chr = MemWrite(@, address, value)],
                 <<"chr_store", address, value>>)
        ELSE IF address < PPU_ADDRESS_SPACE THEN
            LET index == palette_mirror(address)
            IN  IF index < PALETTE_SIZE
                THEN Emit([m EXCEPT !.ppu.palette = MemWrite(@, index, value)],
                          <<"palette_store", index, value>>)
                ELSE Panic(Emit(m, <<"palette_store", index, value>>))
        ELSE Panic(m)

\* Oam::store_data on (&mut self.oamaddr, latch).  `*address += 1` on a u8
\* at 255 panics in a build with overflow checks and wraps in one without.
store_data(m, value, checked) ==
    LET written == [m EXCEPT !.ppu.oam = MemWrite(@, m.ppu.oamaddr, value)]
    IN  IF m.ppu.oamaddr = 255
        THEN IF checked THEN Panic(written)
             ELSE [written EXCEPT !.ppu.oamaddr = 0]
        ELSE [written EXCEPT !.ppu.oamaddr = m.ppu.oamaddr + 1]

\* Ppu::ls_latches, first match: the register the bus reports as written
\* (get_latch); "None" stands for every MemState without an arm
ls_write(m, latch, status, checked) ==
    CASE status = "PpuCtrl" -> [m EXCEPT !.ppu.ctrl = latch]
      [] status = "PpuMask" -> [m EXCEPT !.ppu.mask = latch]
      [] status = "OamAddr" -> [m EXCEPT !.ppu.oamaddr = latch]
      [] status = "OamData" -> store_data(m, latch, checked)
      [] status = "PpuScroll" ->
            [m EXCEPT !.ppu.scroll = set_address(m.ppu.scroll, latch)]
      [] status = "PpuAddr" ->
            [m EXCEPT !.ppu.addr = set_address(m.ppu.addr, latch)]
      [] status = "PpuData" -> store(m, latch)
      [] OTHER -> m

\* Ppu::ls_latches, second match: the register the bus reports as read
\* (get_mem_load_status)
ls_read_clear_top(m, read_status) ==
    CASE read_status = "PpuStatus" ->
            [m EXCEPT !.ppu.addr = reset_address(m.ppu.addr),
                      !.ppu.scroll = reset_address(m.ppu.scroll),
                      !.ppu.status = BitAnd(m.ppu.status, 31)]
      [] read_status = "PpuData" ->
            The({ IF l.m.panicked THEN l.m
                  ELSE Emit([l.m EXCEPT !.bus.staged = l.val],
                            <<"set_latch", l.val>>) :
                    l \in {load(m)} })
      [] OTHER -> m

ls_read(m, read_status) ==
    CASE read_status = "PpuStatus" ->
            [m EXCEPT !.ppu.addr = reset_address(m.ppu.addr),
                      !.ppu.scroll = reset_address(m.ppu.scroll),
                      !.ppu.status = BitAnd(m.ppu.status, 96)]
      [] read_status = "PpuData" ->
            The({ IF l.m.panicked THEN l.m
                  ELSE Emit([l.m EXCEPT !.bus.staged = l.val],
                            <<"set_latch", l.val>>) :
                    l \in {load(m)} })
      [] OTHER -> m

\* Ppu::ls_latches
ls_latches(m, latch, status, read_status, checked) ==
    The({ IF w.panicked THEN w ELSE ls_read(w, read_status) :
            w \in {ls_write(m, latch, status, checked)} })

\* Ppu::show_sprites, Ppu::show_background
show_sprites(p) == BitAnd(p.mask, MASK_SHOW_SPRITES) > 0

show_background(p) == BitAnd(p.mask, MASK_SHOW_BACKGROUND) > 0

\* Ppu::draw
draw(m) ==
    LET d == Emit(m, <<"draw_point", m.ppu.scanline>>)
        scanline == m.ppu.scanline
    IN  IF scanline = 255 /\ scanline < 239 THEN
            [d EXCEPT !.ppu.scanline = 0 + 1]
        ELSE IF scanline = 255 /\ scanline = 239 THEN
            Emit([d EXCEPT !.ppu.scanline = 0, !.ppu.cycles = @ + 1],
                 <<"present">>)
        ELSE [d EXCEPT !.ppu.scanline = @ + 1]

\* the end of Ppu::cycle: if self.cycles == VBLANK_END { ... }
end_of_frame(m) ==
    IF m.ppu.cycles = VBLANK_END
    THEN [m EXCEPT !.ppu.cycles = 0, !.ppu.fps = @ + 1,
                   !.ppu.frame_parity = ~@]
    ELSE m

\* Ppu::cycle, from `if (self.show_sprites() || ...` on
advance(m) ==
    end_of_frame(IF (show_sprites(m.ppu) \/ show_background(m.ppu))
                    /\ m.ppu.cycles = 0
                 THEN draw(m)
                 ELSE [m EXCEPT !.ppu.cycles = @ + 1])

\* Ppu::cycle, from `self.store(memory, val);` on
store_advance(m, val) ==
    The({ IF s.panicked THEN s ELSE advance(s) : s \in {store(m, val)} })

\* Ppu::cycle, from `let val = self.load(memory);` on
load_store_advance(m) ==
    The({ IF l.m.panicked THEN l.m ELSE store_advance(l.m, l.val) :
            l \in {load(m)} })

\* Ppu::cycle
cycle(m0, latch, status, read_status, checked) ==
    The({ IF m1.panicked THEN m1 ELSE load_store_advance(m1) :
            m1 \in {ls_latches(m0, latch, status, read_status, checked)} })

(***************************************************************************)
(* One PPU step: Ppu::cycle on what the bus reports (the latched byte, the *)
(* register written, the register read), and what an observer records      *)
(* about it.  `keep` is the number of past inputs the observer remembers.   *)
(***************************************************************************)
\* the palette index the mirroring rule assigns to a 5-bit offset
Mirror(i) == IF i \in {16, 20, 24, 28} THEN i - 16 ELSE i

InPaletteWindow(a) == a >= 16128 /\ a <= 16383

LastN(seq, n) ==
    IF Len(seq) <= n THEN seq ELSE SubSeq(seq, Len(seq) - n + 1, Len(seq))

AtFrameBoundary == hist.fsteps = 0 \/ hist.fsteps >= VBLANK_END

Observe(latch, status, read_status, keep, m) ==
    LET restart == hist.fsteps >= VBLANK_END /\ ppu.cycles = 0
        a == get_address(ppu.addr)
        stored == status = "PpuData" /\ ~m.panicked
    IN  [steps |-> hist.steps + 1,
         inputs |-> LastN(Append(hist.inputs,
                      [status |-> status, latch |-> latch,
                       read_status |-> read_status]), keep),
         fsteps |-> IF restart THEN 1 ELSE hist.fsteps + 1,
         fps0 |-> IF restart THEN ppu.fps ELSE hist.fps0,
         parity0 |-> IF restart THEN ppu.frame_parity ELSE hist.parity0,
         stores |-> IF stored THEN hist.stores + 1 ELSE hist.stores,
         store |-> IF stored THEN [a |-> a, v |-> latch] ELSE hist.store,
         shadow |-> IF stored /\ InPaletteWindow(a)
                    THEN MemWrite(hist.shadow, Mirror(a % 32), latch)
                    ELSE hist.shadow]

PpuStep(latch, status, read_status, checked, keep) ==
    /\ ~panicked
    /\ \E m \in {cycle(Machine(ppu, bus), latch, status, read_status, checked)} :
           /\ ppu' = m.ppu
           /\ bus' = m.bus
           /\ panicked' = m.panicked
           /\ last' = [op |-> "cycle", latch |-> latch, status |-> status,
                       read_status |-> read_status, pre |-> ppu, bus0 |-> bus,
                       ev |-> m.ev]
           /\ hist' = Observe(latch, status, read_status, keep, m)
    /\ UNCHANGED <<cpu, memory, build>>

InitPpu ==
    /\ cpu = CpuNew
    /\ memory = EmptyMem
    /\ ppu = PpuNew
    /\ bus = BusNew
    /\ panicked = FALSE
    /\ last = NoOp
    /\ hist = HistNew
    /\ build = BuildChecked

(***************************************************************************)
(* SpecLatch: the CPU writes the scroll and address registers and reads    *)
(* the status register.                                                    *)
(***************************************************************************)
LatchBytes == {18, 52, 64}

MaxLatchSteps == 4

CycleLatch ==
    /\ hist.steps < MaxLatchSteps
    /\ \E w \in {<<"None", 0>>} \cup ({"PpuScroll", "PpuAddr"} \X LatchBytes),
          r \in {"None", "PpuStatus"} :
         PpuStep(w[2], w[1], r, TRUE, 3)

NextLatch == CycleLatch

SpecLatch == InitPpu /\ [][NextLatch]_vars

(***************************************************************************)
(* SpecPalette: the CPU programs addresses of the palette window into the  *)
(* address register and writes and reads the data register.                *)
(***************************************************************************)
MaxPalOffset == 63

\* low address bytes: every palette index twice over, and two offsets at
\* the top of the window that alias indices 0x10 and 0x1F
PalOffsets == (0..MaxPalOffset) \cup {240, 255}

PalVals == {1, 2}

MaxPaletteSteps == 2

\* Ppu::new, then two steps in which the CPU writes the low and the high
\* byte of a palette-window address to the address register
ProgrammedAt(a) ==
    The({ cycle(Machine(m.ppu, m.bus), 63, "PpuAddr", "None", TRUE) :
            m \in {cycle(Machine(PpuNew, BusNew), a, "PpuAddr", "None", TRUE)} })

InitPalette ==
    /\ cpu = CpuNew
    /\ memory = EmptyMem
    /\ \E a \in PalOffsets : \E m \in {ProgrammedAt(a)} :
         /\ ppu = m.ppu
         /\ bus = m.bus
    /\ panicked = FALSE
    /\ last = NoOp
    /\ hist = [HistNew EXCEPT !.fsteps = 2]
    /\ build = BuildChecked

\* a second byte written to the address register is the high byte 0x3F
PaletteWrites ==
    IF ppu.addr.upper THEN {<<"PpuAddr", 63>>}
    ELSE {<<"None", 0>>}
         \cup {<<"PpuAddr", b>> : b \in PalOffsets}
         \cup {<<"PpuData", v>> : v \in PalVals}

CyclePalette ==
    /\ hist.steps < MaxPaletteSteps
    /\ \E w \in PaletteWrites, r \in {"None", "PpuData"} :
         PpuStep(w[2], w[1], r, TRUE, 0)

NextPalette == CyclePalette

SpecPalette == InitPalette /\ [][NextPalette]_vars

(***************************************************************************)
(* SpecFrame: the PPU stepping through frames; the CPU writes the mask     *)
(* register between frames.                                                *)
(***************************************************************************)
MaskVals == {0, 8, 16}

MaxFrames == 1

FrameWrites ==
    {<<"None", 0>>}
    \cup (IF AtFrameBoundary THEN {<<"PpuMask", v>> : v \in MaskVals} ELSE {})

CycleFrame ==
    /\ hist.steps < MaxFrames * VBLANK_END
    /\ \E w \in FrameWrites :
         PpuStep(w[2], w[1], "None", TRUE, 0)

NextFrame == CycleFrame

SpecFrame == InitPpu /\ [][NextFrame]_vars

(***************************************************************************)
(* SpecOam: the CPU writes the OAM address and OAM data registers, on a    *)
(* build with and on a build without overflow checks.                      *)
(***************************************************************************)
OamCursors == {0, 254, 255}

OamVals == {1, 2}

MaxOamSteps == 3

InitOam ==
    /\ cpu = CpuNew
    /\ memory = EmptyMem
    /\ ppu = PpuNew
    /\ bus = BusNew
    /\ panicked = FALSE
    /\ last = NoOp
    /\ hist = HistNew
    /\ build \in Builds

CycleOam ==
    /\ hist.steps < MaxOamSteps
    /\ \E w \in {<<"None", 0>>}
                \cup {<<"OamAddr", c>> : c \in OamCursors}
                \cup {<<"OamData", v>> : v \in OamVals} :
         PpuStep(w[2], w[1], "None", build.overflow_checks, 0)

NextOam == CycleOam

SpecOam == InitOam /\ [][NextOam]_vars

(***************************************************************************)
(* SpecRoute: the CPU programs addresses on both sides of the palette base *)
(* and of the end of the PPU address space, and writes and reads the data  *)
(* register.                                                               *)
(***************************************************************************)
\* address bytes: as high bytes 0x00 and 0x3E lie below the palette base,
\* 0x3F is the palette window, 0x40 and 0xFF lie beyond the address space
RouteBytes == {0, 62, 63, 64, 255}

MaxRouteSteps == 3

CycleRoute ==
    /\ hist.steps < MaxRouteSteps
    /\ \E w \in {<<"None", 0>>}
                \cup {<<"PpuAddr", b>> : b \in RouteBytes}
                \cup {<<"PpuData", v>> : v \in PalVals},
          r \in {"None", "PpuData"} :
         PpuStep(w[2], w[1], r, TRUE, 0)

NextRoute == CycleRoute

SpecRoute == InitPpu /\ [][NextRoute]_vars

(***************************************************************************)
(* SpecStatus: the status-read arm of ls_latches applied to every value of *)
(* the status register.  The register is an input here: the bits are      *)
(* owned by rendering code that the PPU does not have yet.                 *)
(***************************************************************************)
MaxStatusSteps == 2

InitStatus ==
    /\ cpu = CpuNew
    /\ memory = EmptyMem
    /\ \E v \in Byte : ppu = [PpuNew EXCEPT !.status = v]
    /\ bus = BusNew
    /\ panicked = FALSE
    /\ last = NoOp
    /\ hist = HistNew
    /\ build = BuildChecked

CycleStatus ==
    /\ hist.steps < MaxStatusSteps
    /\ \E r \in {"None", "PpuStatus"} :
         PpuStep(0, "None", r, TRUE, 0)

NextStatus == CycleStatus

SpecStatus == InitStatus /\ [][NextStatus]_vars

(***************************************************************************)
(* SpecTile: bytes fetched into the tile register of a new PPU.            *)
(***************************************************************************)
TileBytes == {0, 18, 52, 255}

MaxTileSteps == 4

InitTile ==
    /\ cpu = CpuNew
    /\ memory = EmptyMem
    /\ ppu = PpuNew
    /\ bus = BusNew
    /\ panicked = FALSE
    /\ last = [op |-> "none", bytes |-> <<>>]
    /\ hist = HistNew
    /\ build = BuildChecked

SetTileByte ==
    /\ Len(last.bytes) < MaxTileSteps
    /\ \E byte \in TileBytes :
         /\ ppu' = [ppu EXCEPT !.tile = set_tile_byte(@, byte)]
         /\ last' = [op |-> "set_tile_byte", bytes |-> Append(last.bytes, byte)]
    /\ UNCHANGED <<cpu, memory, bus, panicked, hist, build>>

NextTile == SetTileByte

SpecTile == InitTile /\ [][NextTile]_vars

(***************************************************************************)
(* Properties of the PPU engine.                                           *)
(***************************************************************************)
\* the latest two inputs are writes of the same latch register with no
\* register read, made on a fresh PPU or right after a status read
TwoWritesFromReset(reg) ==
    LET n == Len(hist.inputs)
    IN  /\ n >= 2
        /\ hist.inputs[n - 1].status = reg /\ hist.inputs[n].status = reg
        /\ hist.inputs[n - 1].read_status = "None"
        /\ hist.inputs[n].read_status = "None"
        /\ \/ hist.steps = 2
           \/ n >= 3 /\ hist.inputs[n - 2].read_status = "PpuStatus"

FirstWritten == hist.inputs[Len(hist.inputs) - 1].latch

SecondWritten == hist.inputs[Len(hist.inputs)].latch

\* C7: on a fresh PPU, and right after a serviced status read, two writes
\* H then L to the address (scroll) register leave the address (scroll)
\* latch composing to H * 256 + L.
C7_HighByteFirst ==
    /\ TwoWritesFromReset("PpuAddr") =>
         get_address(ppu.addr) = FirstWritten * 256 + SecondWritten
    /\ TwoWritesFromReset("PpuScroll") =>
         get_address(ppu.scroll) = FirstWritten * 256 + SecondWritten

StatusReadServiced ==
    last.op = "cycle" /\ last.read_status = "PpuStatus" /\ ~panicked

\* C8: after a step that serviced a status read, the toggle of the scroll
\* latch and of the address latch is where Ppu::new puts it, whatever it
\* was before the step.
C8_StatusReadResetsToggle ==
    StatusReadServiced =>
        /\ ppu.addr.upper = PpuNew.addr.upper
        /\ ppu.scroll.upper = PpuNew.scroll.upper

\* a status read serviced when one write had flipped the address toggle
C8_Witness ==
    /\ StatusReadServiced
    /\ last.pre.addr.upper /\ ~last.pre.scroll.upper /\ last.status = "None"
    /\ ~ppu.addr.upper

DataReadServiced ==
    last.op = "cycle" /\ last.read_status = "PpuData" /\ ~panicked

PaletteEvents ==
    {i \in DOMAIN last.ev : last.ev[i][1] \in {"palette_load", "palette_store"}}

\* C9: a data read through an address b of the palette window returns what
\* the stores so far put into cell mirror(b & 0x1F), where a store through
\* a goes to cell mirror(a & 0x1F) and mirror sends 0x10, 0x14, 0x18, 0x1C
\* to 0x00, 0x04, 0x08, 0x0C and nothing else anywhere else; so the first
\* store, through a, is seen through b iff mirror(a & 0x1F) = mirror(b &
\* 0x1F); and every palette index used by the step is within 0..31.
C9_PaletteMirroring ==
    LET b == get_address(ppu.addr)
        a == hist.store.a
    IN  (DataReadServiced /\ InPaletteWindow(b)) =>
            /\ bus.staged = MemLoad(hist.shadow, Mirror(b % 32))
            /\ (hist.stores = 1 /\ InPaletteWindow(a)) =>
                   ((bus.staged = hist.store.v) <=> (Mirror(a % 32) = Mirror(b % 32)))
            /\ \A i \in PaletteEvents : last.ev[i][2] \in 0..31

\* a store through 0x3F10 read back through 0x3F00
C9_Witness ==
    /\ DataReadServiced /\ hist.stores = 1
    /\ hist.store.a = 16144 /\ get_address(ppu.addr) = 16128
    /\ hist.store.v = 2 /\ bus.staged = 2

OamDataWritten == last.op = "cycle" /\ last.status = "OamData"

\* C11: a step that services an OAM-data write with cursor c and byte v
\* completes, leaves v in primary OAM at index c and the cursor at
\* (c + 1) mod 256; at c = 255 the cursor is left at 0.
C11_OamCursorWraps ==
    OamDataWritten =>
        /\ ~panicked
        /\ MemLoad(ppu.oam, last.pre.oamaddr) = last.latch
        /\ ppu.oamaddr = (last.pre.oamaddr + 1) % 256

\* C12: every PPU step completes normally, whatever the registers hold.
C12_StepTotal == last.op = "cycle" => ~panicked


\* the calls a step made on the bus's pattern/nametable space and on the
\* palette table
Accesses ==
    { last.ev[i] : i \in { j \in DOMAIN last.ev :
          last.ev[j][1] \in {"chr_load", "chr_store",
                             "palette_load", "palette_store"} } }

\* C13: the loads and stores of a step whose address latch holds a go, for
\* a < 0x3F00, to chr_load / chr_store of the bus with address a and leave
\* the palette table alone; for 0x3F00 <= a < 0x4000, to the palette table
\* at the mirrored index and leave the bus's pattern/nametable space alone;
\* for a >= 0x4000 the step is aborted and neither is accessed.
C13_RangeRouting ==
    LET a == get_address(ppu.addr)
    IN  last.op = "cycle" =>
          /\ a < 16128 =>
               /\ ~panicked
               /\ Accesses # {}
               /\ \A e \in Accesses :
                    e[1] \in {"chr_load", "chr_store"} /\ e[2] = a
               /\ ppu.palette = last.pre.palette
          /\ (a >= 16128 /\ a < 16384) =>
               /\ ~panicked
               /\ Accesses # {}
               /\ \A e \in Accesses :
                    /\ e[1] \in {"palette_load", "palette_store"}
                    /\ e[2] = Mirror(a % 32)
               /\ bus.chr = last.bus0.chr
          /\ a >= 16384 =>
               /\ panicked
               /\ Accesses = {}
               /\ ppu.palette = last.pre.palette
               /\ bus.chr = last.bus0.chr

\* a data write serviced at 0x3F00: the byte is in palette cell 0 and the
\* bus's pattern/nametable space is as it was
C13_Witness ==
    /\ last.op = "cycle" /\ last.status = "PpuData" /\ ~panicked
    /\ get_address(ppu.addr) = 16128
    /\ MemLoad(ppu.palette, 0) = last.latch /\ last.latch = 2
    /\ last.pre.palette = EmptyMem
    /\ bus.chr = last.bus0.chr


Called(e) == \E i \in DOMAIN last.ev : last.ev[i] = e

\* C17: with rendering enabled, the step that draws the last visible
\* scanline (239) completes the frame: it calls present() and leaves the
\* scanline index at 0 for the next frame.
C17_PresentAtFrameEnd ==
    (last.op = "cycle" /\ Called(<<"draw_point", 239>>)) =>
        /\ Called(<<"present">>)
        /\ ppu.scanline = 0

C20_AccessOnlyWhenPending ==
    (last.op = "cycle" /\ last.status # "PpuData" /\ last.read_status # "PpuData") =>
        /\ \A e \in Accesses : e[1] \notin {"chr_load", "chr_store", "palette_store"}
        /\ ppu.palette = last.pre.palette


\* C21: a step that fails because the address latch designates an address
\* at or beyond 0x4000 leaves every field of the PPU as it was before the
\* step.
C21_FailureBeforeMutation ==
    (last.op = "cycle" /\ panicked /\ get_address(ppu.addr) >= 16384) =>
        ppu = last.pre

\* C22: the scanline index stays below the total number of scanlines, 262.
C22_ScanlineBounded == ppu.scanline < 262

\* C23: after an even number of fetches into a new tile register, the
\* register holds the latest pair (H, L) as H * 256 + L.
C23_TileHighByteFirst ==
    LET n == Len(last.bytes)
    IN  (last.op = "set_tile_byte" /\ n % 2 = 0) =>
            get_tile(ppu.tile) = last.bytes[n - 1] * 256 + last.bytes[n]

====
